---- MODULE Spec2Model ----
(***************************************************************************)
(* JSXVectorManager (src/jsx_vector/jsx_vector_manager.py): ingestion of   *)
(* .jsx component files into a vector search index, and retrieval from it. *)
(*                                                                         *)
(* Text is a sequence of one-character strings.  An optional value (a      *)
(* Python None or a value) is the empty sequence or a one-element          *)
(* sequence.  A vector `[x] * n` is kept run-length encoded as             *)
(* [dim |-> n, fill |-> x].                                                *)
(***************************************************************************)
EXTENDS Integers, Sequences, FiniteSets, TLC

VARIABLES
    folder,         \* the components folder: [exists, listable, entries]
    indexExists,    \* the search service holds the index jsx-component-vector-index
    indexDocs,      \* the documents stored in the index, in storage order
    pc,             \* position of the caller / of process_jsx_components
    run,            \* number of process_jsx_components calls started
    idx_report,     \* what initialize_jsx_search_index observed in this call
    has_data,       \* local has_data of process_jsx_components
    jsx_files,      \* local jsx_files
    file_pos,       \* position of the for loop over jsx_files
    all_documents,  \* local all_documents
    reads,          \* files whose open/read was attempted in this call, in order
    outcomes,       \* per attempted file: how far _analyze_jsx_component got
    uploads,        \* arguments of the upload_documents calls of this call
    final_count,    \* local final_count
    call,           \* the search call that just returned to the caller, if any
    baseline,       \* keys the index held after the first complete ingestion, and its run
    keyIn,          \* argument of the _create_safe_jsx_key call under study
    keyOut,         \* its return value, once computed
    source,         \* the component under extraction: [name, text]
    profile         \* what _extract_jsx_patterns returned for it, once computed

vars == <<folder, indexExists, indexDocs, pc, run, idx_report, has_data,
          jsx_files, file_pos, all_documents, reads, outcomes,
          uploads, final_count, call, baseline, keyIn, keyOut, source,
          profile>>

-----------------------------------------------------------------------------
(* Bounds of the model *)

MaxRuns == 2
MaxTopK == 2
MaxTail == 3
MaxImageHint == 3

(* Program constants *)

EmbeddingDim == 1536
MaxKeyLen == 100
OverFetch == 2
RecommendTopK == 3

-----------------------------------------------------------------------------
(* Text helpers: Python str operations used by the program *)

Lower == {"a","b","c","d","e","f","g","h","i","j","k","l","m",
          "n","o","p","q","r","s","t","u","v","w","x","y","z"}
Upper == {"A","B","C","D","E","F","G","H","I","J","K","L","M",
          "N","O","P","Q","R","S","T","U","V","W","X","Y","Z"}
Digits == {"0","1","2","3","4","5","6","7","8","9"}

\* the character class [a-zA-Z0-9_\-=]
SafeChars == Lower \cup Upper \cup Digits \cup {"_", "-", "="}

\* str.endswith
EndsWith(s, suffix) ==
    /\ Len(s) >= Len(suffix)
    /\ SubSeq(s, Len(s) - Len(suffix) + 1, Len(s)) = suffix

\* str.replace(old, new): every non-overlapping occurrence, left to right
RECURSIVE Replace(_, _, _)
Replace(s, old, new) ==
    IF Len(s) < Len(old) THEN s
    ELSE IF SubSeq(s, 1, Len(old)) = old
         THEN new \o Replace(SubSeq(s, Len(old) + 1, Len(s)), old, new)
         ELSE <<Head(s)>> \o Replace(Tail(s), old, new)

\* re.sub(r'[^a-zA-Z0-9_\-=]', '_', s)
SubUnsafe(s) == [i \in 1..Len(s) |-> IF s[i] \in SafeChars THEN s[i] ELSE "_"]

\* re.sub(r'_+', '_', s): of every run of underscores the first one stays
CollapseUnderscores(s) ==
    LET withPrev == [i \in 1..Len(s) |->
                        [c |-> s[i], prev |-> IF i > 1 THEN s[i - 1] ELSE ""]]
        kept == SelectSeq(withPrev, LAMBDA e : ~(e.c = "_" /\ e.prev = "_"))
    IN  [k \in 1..Len(kept) |-> kept[k].c]

\* str.strip('_'): from the first to the last character that is no underscore
Strip(s) ==
    LET solid == { i \in 1..Len(s) : s[i] # "_" }
    IN  IF solid = {} THEN <<>>
        ELSE SubSeq(s, CHOOSE i \in solid : \A j \in solid : i <= j,
                       CHOOSE i \in solid : \A j \in solid : j <= i)

\* s[:n]
Take(s, n) == SubSeq(s, 1, IF Len(s) < n THEN Len(s) ELSE n)

JsxExt == <<".", "j", "s", "x">>

-----------------------------------------------------------------------------
(* _create_safe_jsx_key *)

\* a sanitizer that keeps the text after the trim whatever its length
KeyWithoutTrim(component_name) ==
    LET safe_name == CollapseUnderscores(SubUnsafe(component_name))
    IN  IF Len(safe_name) > MaxKeyLen THEN Take(safe_name, MaxKeyLen) ELSE safe_name

\* a key that also depends on the call that produced it
KeyPerRun(component_name) ==
    LET safe_name == Strip(CollapseUnderscores(SubUnsafe(component_name)))
    IN  Take(safe_name, MaxKeyLen - 1) \o <<IF run > 1 THEN "2" ELSE "1">>

_create_safe_jsx_key(component_name) ==
    LET safe_name == Strip(CollapseUnderscores(SubUnsafe(component_name)))
    IN  IF Len(safe_name) > MaxKeyLen THEN Take(safe_name, MaxKeyLen) ELSE safe_name

-----------------------------------------------------------------------------
(* Folder contents *)

F_ab    == <<"a", "b">> \o JsxExt
F_a_b   == <<"a", " ", "b">> \o JsxExt
F_a_u_b == <<"a", "_", "b">> \o JsxExt
F_bang  == <<"!">> \o JsxExt
F_c     == <<"c">> \o JsxExt
F_twice == <<"c">> \o JsxExt \o JsxExt
F_notes == <<"n", ".", "t", "x", "t">>

\* directory listings (os.listdir order) the model starts from
Listings ==
    { <<>>,
      <<F_notes>>,
      <<F_ab>>,
      <<F_bang>>,
      <<F_ab, F_notes>>,
      <<F_a_b, F_a_u_b>>,
      <<F_bang, F_ab>>,
      <<F_c, F_twice>>,
      <<F_twice, F_notes, F_ab>> }

Folders ==
    { [exists |-> FALSE, listable |-> FALSE, entries |-> <<>>],
      [exists |-> TRUE, listable |-> FALSE, entries |-> <<>>] }
    \cup { [exists |-> TRUE, listable |-> TRUE, entries |-> e] : e \in Listings }

\* [f for f in os.listdir(components_folder) if f.endswith('.jsx')]
JsxFilesOf(entries) == SelectSeq(entries, LAMBDA f : EndsWith(f, JsxExt))

\* component_name = jsx_file.replace('.jsx', '')
ComponentName(jsx_file) == Replace(jsx_file, JsxExt, <<>>)

-----------------------------------------------------------------------------
(* Embedding provider and _create_jsx_embedding *)

\* [x] * n
Repeat(x, n) == [dim |-> n, fill |-> x]

\* what openai_client.embeddings.create answers: no value when the request
\* fails, else response.data[0].embedding
ProviderAnswers == { <<>>, <<Repeat(1, EmbeddingDim)>> }

\* the vector _create_jsx_embedding returns: the provider's, or the zero
\* vector when the request raised
_create_jsx_embedding(answer) ==
    IF answer = <<>> THEN Repeat(0, EmbeddingDim) ELSE answer[1]

-----------------------------------------------------------------------------
(* _analyze_jsx_component *)

ReadFailed    == "read_failed"
ExtractFailed == "extract_failed"
EmbedFailed   == "embed_failed"
Embedded      == "embedded"

\* how far one file's analysis got, from what its stages did
OutcomeOf(readOK, extractOK, answer) ==
    IF ~readOK THEN ReadFailed
    ELSE IF ~extractOK THEN ExtractFailed
    ELSE IF answer = <<>> THEN EmbedFailed
    ELSE Embedded

\* an analysis that drops the file when no embedding could be obtained
AnalyzeSkippingOnEmbedFailure(jsx_file, readOK, extractOK, answer) ==
    IF ~readOK \/ ~extractOK \/ answer = <<>> THEN <<>>
    ELSE <<[id |-> _create_safe_jsx_key(ComponentName(jsx_file)),
            component_name |-> ComponentName(jsx_file),
            jsx_vector |-> answer[1]]>>

\* the document _analyze_jsx_component returns, as an optional value (None
\* when the read or an extraction stage raised); of its fields the key, the
\* name and the vector are kept, the others are functions of the file's text
_analyze_jsx_component(jsx_file, readOK, extractOK, answer) ==
    IF ~readOK \/ ~extractOK THEN <<>>
    ELSE LET component_name == ComponentName(jsx_file)
             vector == _create_jsx_embedding(answer)
             doc_id == _create_safe_jsx_key(component_name)
         IN  <<[id |-> doc_id,
                component_name |-> component_name,
                jsx_vector |-> vector]>>

-----------------------------------------------------------------------------
(* The search index service *)

\* documents an earlier ingestion of other components left in the index
OldDoc == [id |-> <<"o", "l", "d">>,
           component_name |-> <<"o", "l", "d">>,
           jsx_vector |-> Repeat(1, EmbeddingDim)]
OldDoc2 == [id |-> <<"o", "2">>,
            component_name |-> <<"o", "2">>,
            jsx_vector |-> Repeat(0, EmbeddingDim)]

Keys(docs) == { docs[i].id : i \in 1..Len(docs) }

\* insert-or-replace by key of one document
Put(store, d) ==
    IF \E i \in 1..Len(store) : store[i].id = d.id
    THEN [i \in 1..Len(store) |-> IF store[i].id = d.id THEN d ELSE store[i]]
    ELSE Append(store, d)

\* upload_documents: the accepted documents are upserted in order
\* (accepted holds the positions the service reports as succeeded)
RECURSIVE UploadAt(_, _, _, _)
UploadAt(store, docs, accepted, i) ==
    IF i > Len(docs) THEN store
    ELSE UploadAt(IF i \in accepted THEN Put(store, docs[i]) ELSE store,
                  docs, accepted, i + 1)
Upload(store, docs, accepted) == UploadAt(store, docs, accepted, 1)

\* ranked answers of at most n hits over the stored documents
RECURSIVE Rankings(_, _)
Rankings(S, n) ==
    IF n = 0 \/ S = {} THEN { <<>> }
    ELSE { <<>> } \cup
         UNION { { <<x>> \o r : r \in Rankings(S \ {x}, n - 1) } : x \in S }

-----------------------------------------------------------------------------
(* initialize_jsx_search_index and _check_jsx_index_has_data *)

\* search("*", top=1) and the count of what it returned; False when it raised
_check_jsx_index_has_data(checkOK) ==
    checkOK /\ Len(Take(indexDocs, 1)) > 0

\* getOK: get_index answers (it raises when the index is absent);
\* createOK: create_index answers (it raises when the index exists)
initialize_jsx_search_index(getOK, checkOK, createOK) ==
    IF indexExists /\ getOK
    THEN [has_data |-> _check_jsx_index_has_data(checkOK),
          exists   |-> TRUE,
          report   |-> IF ~checkOK THEN "check_failed"
                       ELSE IF indexDocs # <<>> THEN "has_documents"
                       ELSE "empty"]
    ELSE IF createOK /\ ~indexExists
         THEN [has_data |-> FALSE, exists |-> TRUE, report |-> "created"]
         ELSE [has_data |-> FALSE, exists |-> indexExists,
               report |-> "init_failed"]

-----------------------------------------------------------------------------
(* search_jsx_components and get_jsx_recommendations *)

\* the conjunction of the filter clauses the arguments ask for
Filters(category, image_count, complexity) ==
    [component_category |-> IF category # <<>> /\ category[1] # ""
                            THEN category ELSE <<>>,
     image_count        |-> image_count,
     complexity_level   |-> IF complexity # <<>> /\ complexity[1] # ""
                            THEN complexity ELSE <<>>]

\* component_data of one hit
ComponentData(hit) == [id |-> hit.id, component_name |-> hit.component_name]

\* a search that returns every candidate it fetched
SearchWithoutCut(category, image_count, complexity, top_k, answer, searchOK, hits) ==
    [top_k    |-> top_k,
     embedded |-> answer # <<>>,
     queries  |-> <<[vector |-> _create_jsx_embedding(answer),
                     k_nearest_neighbors |-> top_k * OverFetch,
                     top |-> top_k * OverFetch,
                     filter |-> Filters(category, image_count, complexity)]>>,
     response |-> IF searchOK THEN hits ELSE <<>>,
     result   |-> IF searchOK
                  THEN [i \in 1..Len(hits) |-> ComponentData(hits[i])]
                  ELSE <<>>,
     raised   |-> FALSE]

\* answer: what the embedding provider answers; searchOK: search_client.search
\* answers, with hits; the record holds what the call did and returned
search_jsx_components(category, image_count, complexity, top_k, answer, searchOK, hits) ==
    LET query_embedding == _create_jsx_embedding(answer)
        vector_query == [vector |-> query_embedding,
                         k_nearest_neighbors |-> top_k * OverFetch,
                         top |-> top_k * OverFetch,
                         filter |-> Filters(category, image_count, complexity)]
        jsx_components == [i \in 1..Len(hits) |-> ComponentData(hits[i])]
    IN  [top_k    |-> top_k,
         embedded |-> answer # <<>>,
         queries  |-> <<vector_query>>,
         response |-> IF searchOK THEN hits ELSE <<>>,
         result   |-> IF searchOK THEN Take(jsx_components, top_k) ELSE <<>>,
         raised   |-> FALSE]

\* a recommendation that counts two images as many
RecommendedCategoryOffByOne(image_count) ==
    IF image_count # <<>>
    THEN IF image_count[1] = 0 THEN <<"text_focused">>
         ELSE IF image_count[1] < 2 THEN <<"mixed">>
         ELSE <<"image_focused">>
    ELSE <<>>

\* category recommended for an image-count hint
RecommendedCategory(image_count) ==
    IF image_count # <<>>
    THEN IF image_count[1] = 0 THEN <<"text_focused">>
         ELSE IF image_count[1] <= 2 THEN <<"mixed">>
         ELSE <<"image_focused">>
    ELSE <<>>

get_jsx_recommendations(image_count, answer, searchOK, hits) ==
    search_jsx_components(RecommendedCategory(image_count), image_count, <<>>,
                          RecommendTopK, answer, searchOK, hits)

-----------------------------------------------------------------------------
(* process_jsx_components, step by step *)

NoLocals ==
    /\ idx_report' = "none"
    /\ has_data' = FALSE
    /\ jsx_files' = <<>>
    /\ file_pos' = 0
    /\ all_documents' = <<>>
    /\ reads' = <<>>
    /\ outcomes' = <<>>
    /\ uploads' = <<>>
    /\ final_count' = 0

\* a run that goes on to the files whatever the index holds
AlwaysProcess(hd) == "list"

\* if has_data: return
AfterInitialize(hd) == IF hd THEN "returned" ELSE "list"

\* a loop that a failed file ends
LoopEndingOnFailure(document, pos, n) ==
    IF document = <<>> \/ pos = n THEN "upload" ELSE "analyze"

\* for jsx_file in jsx_files: the loop goes on until the last file
LoopStep(document, pos, n) == IF pos = n THEN "upload" ELSE "analyze"

\* an upload step that submits whatever was collected
UploadAlways(documents) == TRUE

\* if all_documents:
ShouldUpload(documents) == documents # <<>>

\* the call enters process_jsx_components: os.path.exists(components_folder)
ProcessStart ==
    /\ pc = "idle"
    /\ run < MaxRuns
    /\ run' = run + 1
    /\ pc' = IF folder.exists THEN "initialize" ELSE "returned"
    /\ UNCHANGED <<folder, indexExists, indexDocs, idx_report, has_data,
                   jsx_files, file_pos, all_documents, reads, outcomes,
                   uploads, final_count, call, baseline, keyIn, keyOut,
                   source, profile>>

\* has_data = self.initialize_jsx_search_index()
InitializeIndex ==
    /\ pc = "initialize"
    /\ \E getOK \in BOOLEAN, checkOK \in BOOLEAN, createOK \in BOOLEAN :
          LET r == initialize_jsx_search_index(getOK, checkOK, createOK)
          IN  /\ indexExists' = r.exists
              /\ has_data' = r.has_data
              /\ idx_report' = r.report
              /\ pc' = AfterInitialize(r.has_data)
    /\ UNCHANGED <<folder, indexDocs, run, jsx_files, file_pos, all_documents,
                   reads, outcomes, uploads, final_count, call, baseline,
                   keyIn, keyOut,
                   source, profile>>

\* jsx_files = [f for f in os.listdir(...) if f.endswith('.jsx')]; the
\* listing is outside any try block
ListFolder ==
    /\ pc = "list"
    /\ IF ~folder.listable
       THEN /\ pc' = "raised"
            /\ UNCHANGED <<jsx_files, file_pos>>
       ELSE /\ jsx_files' = JsxFilesOf(folder.entries)
            /\ file_pos' = 1
            /\ pc' = IF jsx_files' = <<>> THEN "returned" ELSE "analyze"
    /\ UNCHANGED <<folder, indexExists, indexDocs, run, idx_report, has_data,
                   all_documents, reads, outcomes, uploads, final_count, call,
                   baseline, keyIn, keyOut,
                   source, profile>>

\* one iteration of the for loop over jsx_files
AnalyzeFile ==
    /\ pc = "analyze"
    /\ \E readOK \in BOOLEAN, extractOK \in BOOLEAN, answer \in ProviderAnswers :
          LET jsx_file == jsx_files[file_pos]
              jsx_document == _analyze_jsx_component(jsx_file, readOK, extractOK, answer)
          IN  /\ reads' = Append(reads, jsx_file)
              /\ outcomes' = Append(outcomes, OutcomeOf(readOK, extractOK, answer))
              /\ all_documents' = all_documents \o jsx_document
              /\ pc' = LoopStep(jsx_document, file_pos, Len(jsx_files))
    /\ file_pos' = file_pos + 1
    /\ UNCHANGED <<folder, indexExists, indexDocs, run, idx_report, has_data,
                   jsx_files, uploads, final_count, call, baseline, keyIn, keyOut,
                   source, profile>>

\* if all_documents: _upload_jsx_to_search_index, _get_jsx_document_count
UploadDocuments ==
    /\ pc = "upload"
    /\ IF ShouldUpload(all_documents)
       THEN \E uploadOK \in BOOLEAN, countOK \in BOOLEAN,
               accepted \in SUBSET (1..Len(all_documents)) :
               LET stored == uploadOK /\ indexExists
                   complete == /\ stored
                               /\ accepted = 1..Len(all_documents)
                               /\ Len(all_documents) = Len(jsx_files)
               IN  /\ uploads' = Append(uploads, all_documents)
                   /\ indexDocs' = IF stored
                                   THEN Upload(indexDocs, all_documents, accepted)
                                   ELSE indexDocs
                   /\ final_count' = IF countOK /\ indexExists
                                     THEN Len(indexDocs') ELSE 0
                   /\ baseline' = IF baseline = <<>> /\ complete
                                  THEN <<[keys |-> Keys(indexDocs'), run |-> run]>>
                                  ELSE baseline
       ELSE UNCHANGED <<uploads, indexDocs, final_count, baseline>>
    /\ pc' = "returned"
    /\ UNCHANGED <<folder, indexExists, run, idx_report, has_data, jsx_files,
                   file_pos, all_documents, reads, outcomes, call, keyIn, keyOut,
                   source, profile>>

-----------------------------------------------------------------------------
(* The retrieval calls *)

SearchArgs ==
    { [category |-> <<>>, image_count |-> <<>>, complexity |-> <<>>],
      [category |-> <<"image_focused">>, image_count |-> <<>>, complexity |-> <<>>],
      [category |-> <<"mixed">>, image_count |-> <<0>>, complexity |-> <<"simple">>] }

ImageCountHints == { <<>> } \cup { <<n>> : n \in 0..MaxImageHint }

\* what search_client.search may answer to a query for at most top hits
Hits(top) ==
    { [i \in 1..Len(r) |-> indexDocs[r[i]]] : r \in Rankings(1..Len(indexDocs), top) }

Search ==
    /\ pc = "idle"
    /\ \E a \in SearchArgs, top_k \in 1..MaxTopK, answer \in ProviderAnswers,
          searchOK \in BOOLEAN :
          \E hits \in IF searchOK /\ indexExists THEN Hits(top_k * OverFetch) ELSE { <<>> } :
             call' = <<search_jsx_components(a.category, a.image_count, a.complexity,
                           top_k, answer, searchOK /\ indexExists, hits)>>
    /\ pc' = "searched"
    /\ UNCHANGED <<folder, indexExists, indexDocs, run, idx_report, has_data,
                   jsx_files, file_pos, all_documents, reads, outcomes,
                   uploads, final_count, baseline, keyIn, keyOut,
                   source, profile>>

Recommend ==
    /\ pc = "idle"
    /\ \E image_count \in ImageCountHints, answer \in ProviderAnswers,
          searchOK \in BOOLEAN :
          \E hits \in IF searchOK /\ indexExists
                      THEN Hits(RecommendTopK * OverFetch) ELSE { <<>> } :
             call' = <<get_jsx_recommendations(image_count, answer,
                           searchOK /\ indexExists, hits)>>
    /\ pc' = "recommended"
    /\ UNCHANGED <<folder, indexExists, indexDocs, run, idx_report, has_data,
                   jsx_files, file_pos, all_documents, reads, outcomes,
                   uploads, final_count, baseline, keyIn, keyOut,
                   source, profile>>

\* the call returns to its caller; its locals are gone
Return ==
    /\ pc \in {"returned", "searched", "recommended"}
    /\ pc' = "idle"
    /\ NoLocals
    /\ call' = <<>>
    /\ UNCHANGED <<folder, indexExists, indexDocs, run, baseline, keyIn, keyOut,
                   source, profile>>

-----------------------------------------------------------------------------
(* The ingestion and retrieval specification *)

Init ==
    /\ folder \in Folders
    /\ indexExists \in BOOLEAN
    /\ indexDocs \in IF indexExists THEN { <<>>, <<OldDoc>>, <<OldDoc, OldDoc2>> }
                     ELSE { <<>> }
    /\ pc = "idle"
    /\ run = 0
    /\ idx_report = "none"
    /\ has_data = FALSE
    /\ jsx_files = <<>>
    /\ file_pos = 0
    /\ all_documents = <<>>
    /\ reads = <<>>
    /\ outcomes = <<>>
    /\ uploads = <<>>
    /\ final_count = 0
    /\ call = <<>>
    /\ baseline = <<>>
    /\ keyIn = <<>>
    /\ keyOut = <<>>
    /\ source = <<>>
    /\ profile = <<>>

Next ==
    \/ ProcessStart
    \/ InitializeIndex
    \/ ListFolder
    \/ AnalyzeFile
    \/ UploadDocuments
    \/ Search
    \/ Recommend
    \/ Return

Spec == Init /\ [][Next]_vars

-----------------------------------------------------------------------------
(* _create_safe_jsx_key on its own: names around the length limit *)

TailChars == {"a", "Z", "_", "!", "-"}

RECURSIVE Texts(_)
Texts(n) ==
    IF n = 0 THEN { <<>> }
    ELSE Texts(n - 1) \cup
         { Append(t, c) : t \in { u \in Texts(n - 1) : Len(u) = n - 1 }, c \in TailChars }

Pad(n) == [i \in 1..n |-> "x"]

\* short names, and names that reach or pass the limit by a few characters
KeyInputs ==
    { Pad(n) \o t : n \in {0} \cup ((MaxKeyLen - MaxTail)..MaxKeyLen), t \in Texts(MaxTail) }

InitKey ==
    /\ keyIn \in KeyInputs
    /\ keyOut = <<>>
    /\ pc = "key_call"
    /\ folder = [exists |-> FALSE, listable |-> FALSE, entries |-> <<>>]
    /\ indexExists = FALSE
    /\ indexDocs = <<>>
    /\ run = 0
    /\ idx_report = "none"
    /\ has_data = FALSE
    /\ jsx_files = <<>>
    /\ file_pos = 0
    /\ all_documents = <<>>
    /\ reads = <<>>
    /\ outcomes = <<>>
    /\ uploads = <<>>
    /\ final_count = 0
    /\ call = <<>>
    /\ baseline = <<>>
    /\ source = <<>>
    /\ profile = <<>>

CreateKey ==
    /\ pc = "key_call"
    /\ keyOut' = _create_safe_jsx_key(keyIn)
    /\ pc' = "key_done"
    /\ UNCHANGED <<folder, indexExists, indexDocs, run, idx_report, has_data,
                   jsx_files, file_pos, all_documents, reads, outcomes,
                   uploads, final_count, call, baseline, keyIn,
                   source, profile>>

NextKey == CreateKey

SpecKey == InitKey /\ [][NextKey]_vars

-----------------------------------------------------------------------------
(* _extract_jsx_patterns on its own: the category, image patterns, children *)
(* structure and complexity extracted from a component's name and text      *)

UpperCase == <<"A", "B", "C", "D", "E", "F", "G", "H", "I", "J", "K", "L", "M", "N", "O", "P", "Q", "R", "S", "T", "U", "V", "W", "X", "Y", "Z">>
LowerCase == <<"a", "b", "c", "d", "e", "f", "g", "h", "i", "j", "k", "l", "m", "n", "o", "p", "q", "r", "s", "t", "u", "v", "w", "x", "y", "z">>

\* str.lower, on the ASCII letters
ToLower(s) ==
    [i \in 1..Len(s) |->
        IF s[i] \in Upper
        THEN LowerCase[CHOOSE k \in 1..Len(UpperCase) : UpperCase[k] = s[i]]
        ELSE s[i]] \o <<>>

\* sub in s
Contains(s, sub) ==
    \E i \in 1..(Len(s) - Len(sub) + 1) : SubSeq(s, i, i + Len(sub) - 1) = sub

\* the positions of s where sub starts
Occurrences(s, sub) ==
    { i \in 1..(Len(s) - Len(sub) + 1) : SubSeq(s, i, i + Len(sub) - 1) = sub }

\* str.count(sub): occurrences taken left to right, none overlapping the one
\* taken before it
RECURSIVE CountFrom(_, _, _)
CountFrom(occ, width, from) ==
    LET rest == { i \in occ : i >= from }
    IN  IF rest = {} THEN 0
        ELSE 1 + CountFrom(rest, width,
                           (CHOOSE i \in rest : \A j \in rest : i <= j) + width)

Count(s, sub) == CountFrom(Occurrences(s, sub), Len(sub), 1)

\* the literals the extractors look for
ImgTag       == <<"<", "i", "m", "g">>
DivTag       == <<"<", "d", "i", "v">>
H1Tag        == <<"<", "h", "1">>
H2Tag        == <<"<", "h", "2">>
PTag         == <<"<", "p">>
StyleAttr    == <<"s", "t", "y", "l", "e", "=">>
ClassAttr    == <<"c", "l", "a", "s", "s", "N", "a", "m", "e", "=">>
GridWord     == <<"g", "r", "i", "d">>
FlexWord     == <<"f", "l", "e", "x">>
FullWidth    == <<"w", "i", "d", "t", "h", ":", " ", "'", "1", "0", "0", "%", "'">>
AspectPrefix == <<"a", "s", "p", "e", "c", "t", "-">>
QuestionMark == <<"?">>
Colon        == <<":">>
UseStateHook == <<"u", "s", "e", "S", "t", "a", "t", "e">>
UseEffectHook == <<"u", "s", "e", "E", "f", "f", "e", "c", "t">>
MemoHook     == <<"m", "e", "m", "o">>
ResponsiveWord == <<"r", "e", "s", "p", "o", "n", "s", "i", "v", "e">>
MobileWord   == <<"m", "o", "b", "i", "l", "e">>
ImageWord    == <<"i", "m", "a", "g", "e">>
TextWord     == <<"t", "e", "x", "t">>
MixedWord    == <<"m", "i", "x", "e", "d">>
CardWord     == <<"c", "a", "r", "d">>
ListWord     == <<"l", "i", "s", "t">>
DashboardWord == <<"d", "a", "s", "h", "b", "o", "a", "r", "d">>

\* _classify_component_category with the name checks in another order
CategoryTextBeforeImage(component_name, jsx_code) ==
    LET name_lower == ToLower(component_name)
    IN  IF Contains(name_lower, TextWord) THEN "text_focused"
        ELSE IF Contains(name_lower, ImageWord) THEN "image_focused"
        ELSE IF Contains(name_lower, MixedWord) THEN "mixed"
        ELSE IF Contains(name_lower, CardWord) THEN "card_based"
        ELSE IF Contains(name_lower, ListWord) THEN "list_based"
        ELSE IF Contains(name_lower, DashboardWord) THEN "dashboard"
        ELSE LET img_count == Count(jsx_code, ImgTag)
                 text_elements == Count(jsx_code, H1Tag) + Count(jsx_code, H2Tag)
                                      + Count(jsx_code, PTag)
             IN  IF img_count > text_elements THEN "image_focused"
                 ELSE IF text_elements > img_count * 2 THEN "text_focused"
                 ELSE "mixed"

_classify_component_category(component_name, jsx_code) ==
    LET name_lower == ToLower(component_name)
    IN  IF Contains(name_lower, ImageWord) THEN "image_focused"
        ELSE IF Contains(name_lower, TextWord) THEN "text_focused"
        ELSE IF Contains(name_lower, MixedWord) THEN "mixed"
        ELSE IF Contains(name_lower, CardWord) THEN "card_based"
        ELSE IF Contains(name_lower, ListWord) THEN "list_based"
        ELSE IF Contains(name_lower, DashboardWord) THEN "dashboard"
        ELSE LET img_count == Count(jsx_code, ImgTag)
                 text_elements == Count(jsx_code, H1Tag) + Count(jsx_code, H2Tag)
                                      + Count(jsx_code, PTag)
             IN  IF img_count > text_elements THEN "image_focused"
                 ELSE IF text_elements > img_count * 2 THEN "text_focused"
                 ELSE "mixed"

\* _analyze_image_patterns taking flex for any number of images
ArrangementFlexAnyCount(jsx_code) ==
    LET img_count == Count(jsx_code, ImgTag)
        lowered == ToLower(jsx_code)
    IN  [count |-> img_count,
         arrangement |->
             IF Contains(lowered, GridWord) THEN "grid"
             ELSE IF Contains(lowered, FlexWord) THEN "flex"
             ELSE IF img_count = 1 THEN "single"
             ELSE IF img_count > 3 THEN "gallery"
             ELSE "multiple",
         sizing |->
             IF Contains(jsx_code, FullWidth) THEN "responsive"
             ELSE IF Contains(jsx_code, AspectPrefix) THEN "aspect_ratio"
             ELSE "fixed"]

_analyze_image_patterns(jsx_code) ==
    LET img_count == Count(jsx_code, ImgTag)
        lowered == ToLower(jsx_code)
    IN  [count |-> img_count,
         arrangement |->
             IF Contains(lowered, GridWord) THEN "grid"
             ELSE IF Contains(lowered, FlexWord) /\ img_count > 1 THEN "flex"
             ELSE IF img_count = 1 THEN "single"
             ELSE IF img_count > 3 THEN "gallery"
             ELSE "multiple",
         sizing |->
             IF Contains(jsx_code, FullWidth) THEN "responsive"
             ELSE IF Contains(jsx_code, AspectPrefix) THEN "aspect_ratio"
             ELSE "fixed"]

\* the hooks _analyze_jsx_structure appends, in its order
HooksUsed(jsx_code) ==
    (IF Contains(jsx_code, UseStateHook) THEN <<"useState">> ELSE <<>>)
    \o (IF Contains(jsx_code, UseEffectHook) THEN <<"useEffect">> ELSE <<>>)
    \o (IF Contains(jsx_code, MemoHook) THEN <<"memo">> ELSE <<>>)

\* _analyze_jsx_structure testing the ternary markers before the containers
StructureConditionalFirst(jsx_code) ==
    [component_type |-> "functional",
     hooks_used |-> HooksUsed(jsx_code),
     props_pattern |-> "simple",
     children_structure |->
         IF Contains(jsx_code, QuestionMark) /\ Contains(jsx_code, Colon)
         THEN "conditional"
         ELSE IF Count(jsx_code, DivTag) > 3 THEN "nested"
         ELSE "single"]

_analyze_jsx_structure(jsx_code) ==
    [component_type |-> "functional",
     hooks_used |-> HooksUsed(jsx_code),
     props_pattern |-> "simple",
     children_structure |->
         IF Count(jsx_code, DivTag) > 3 THEN "nested"
         ELSE IF Contains(jsx_code, QuestionMark) /\ Contains(jsx_code, Colon)
         THEN "conditional"
         ELSE "single"]

(* IEEE-754 doubles near a multiple of one tenth.  With w = 2^-55 / 5, the  *)
(* record [tenths |-> q, err |-> e] is the number q/10 + e*w, that is       *)
(* (q * 2^54 + e) * w.  The doubles from 2^j up to 2^(j+1) are the          *)
(* multiples of 5 * 2^(j+3), in units of w.                                 *)

RECURSIVE Pow2(_)
Pow2(n) == IF n = 0 THEN 1 ELSE 2 * Pow2(n - 1)

\* the m for which q/10 + e*w lies from 2^(m-3) up to 2^(m-2), searched from
\* m upwards; q >= 2
RECURSIVE Binade(_, _, _)
Binade(q, e, m) ==
    LET next == 5 * Pow2(m + 1)
    IN  IF next < 4 * q \/ (next = 4 * q /\ e >= 0)
        THEN Binade(q, e, m + 1)
        ELSE m

\* round to nearest double, ties to the even one
RoundToDouble(q, e) ==
    IF q = 0 /\ e = 0 THEN [tenths |-> 0, err |-> 0]
    ELSE LET m == Binade(q, e, 0)
             g == 5 * Pow2(m)
             over == (Pow2(m + 1) * (((q % 5) * Pow2((53 - m) % 4)) % 5) + e) % (2 * g)
             r == over % g
         IN  IF 2 * r < g THEN [tenths |-> q, err |-> e - r]
             ELSE IF 2 * r > g THEN [tenths |-> q, err |-> e + g - r]
             ELSE IF over < g THEN [tenths |-> q, err |-> e - r]
             ELSE [tenths |-> q, err |-> e + g - r]

\* the double a decimal literal of t tenths denotes (0.3 is FloatLiteral(3))
FloatLiteral(t) == RoundToDouble(t, 0)

\* int * float
FloatTimes(n, x) == RoundToDouble(n * x.tenths, n * x.err)

\* float + float
FloatPlus(x, y) == RoundToDouble(x.tenths + y.tenths, x.err + y.err)

\* float < float
FloatLess(x, y) == x.tenths < y.tenths \/ (x.tenths = y.tenths /\ x.err < y.err)

\* the local complexity_score of _generate_component_metadata
ComplexityScore(jsx_code) ==
    FloatPlus(FloatPlus(FloatPlus(FloatTimes(Count(jsx_code, DivTag), FloatLiteral(5)),
                                  FloatTimes(Count(jsx_code, ImgTag), FloatLiteral(10))),
                        FloatTimes(Count(jsx_code, StyleAttr), FloatLiteral(3))),
              FloatTimes(Count(jsx_code, ClassAttr), FloatLiteral(2)))

\* _generate_component_metadata with thresholds that include their limit
MetadataThresholdInclusive(jsx_code, category) ==
    LET complexity_score == ComplexityScore(jsx_code)
        lowered == ToLower(jsx_code)
    IN  [complexity_score |-> complexity_score,
         complexity |->
             IF ~FloatLess(FloatLiteral(50), complexity_score) THEN "simple"
             ELSE IF ~FloatLess(FloatLiteral(150), complexity_score) THEN "moderate"
             ELSE "complex",
         reusability |->
             IF category \in {"image_focused", "text_focused"}
             THEN FloatLiteral(8) ELSE FloatLiteral(6),
         mobile_optimized |->
             Contains(lowered, ResponsiveWord) \/ Contains(lowered, MobileWord)]

\* the returned record, and with it the local complexity_score
_generate_component_metadata(jsx_code, category) ==
    LET complexity_score == ComplexityScore(jsx_code)
        lowered == ToLower(jsx_code)
    IN  [complexity_score |-> complexity_score,
         complexity |->
             IF FloatLess(complexity_score, FloatLiteral(50)) THEN "simple"
             ELSE IF FloatLess(complexity_score, FloatLiteral(150)) THEN "moderate"
             ELSE "complex",
         reusability |->
             IF category \in {"image_focused", "text_focused"}
             THEN FloatLiteral(8) ELSE FloatLiteral(6),
         mobile_optimized |->
             Contains(lowered, ResponsiveWord) \/ Contains(lowered, MobileWord)]

\* the category, images, structure and metadata entries of the returned
\* analysis; its text, layout, tailwind, code and keywords entries are left out
_extract_jsx_patterns(jsx_code, component_name) ==
    LET category == _classify_component_category(component_name, jsx_code)
    IN  [category |-> category,
         images |-> _analyze_image_patterns(jsx_code),
         structure |-> _analyze_jsx_structure(jsx_code),
         metadata |-> _generate_component_metadata(jsx_code, category)]

(* Components to extract from *)

MaxDivs == 5
MaxImgs == 9
MaxStyleAttrs == 18
MaxClassAttrs == 4
MaxFewImgs == 4
MaxTextTags == 3

\* tok * n
Times(tok, n) == [k \in 1..(n * Len(tok)) |-> tok[((k - 1) % Len(tok)) + 1]] \o <<>>

DivElem == <<"<", "d", "i", "v", ">">>
ImgElem == <<"<", "i", "m", "g", "/", ">">>
TextElems == <<<<"<", "h", "1", ">">>, <<"<", "h", "2", ">">>, <<"<", "p", ">">>>>

\* t heading and paragraph elements
RECURSIVE TextTags(_)
TextTags(t) ==
    IF t = 0 THEN <<>>
    ELSE TextTags(t - 1) \o TextElems[((t - 1) % Len(TextElems)) + 1]

GridMarks == { <<>>, <<"g", "r", "i", "d">>, <<"G", "r", "i", "d">> }
FlexMarks == { <<>>, <<"f", "l", "e", "x">> }
TernaryMarks == { <<>>, <<"?">>, <<":">>, <<"?", ":">> }

ComponentNames ==
    { <<"H", "e", "r", "o">>, <<"I", "m", "a", "g", "e">>, <<"T", "e", "x", "t", "I", "m", "a", "g", "e">>, <<"C", "o", "n", "t", "e", "x", "t", "M", "e", "n", "u">>, <<"C", "a", "r", "d", "M", "i", "x", "e", "d">>,
      <<"L", "i", "s", "t", "C", "a", "r", "d">>, <<"D", "a", "s", "h", "b", "o", "a", "r", "d", "L", "i", "s", "t">>, <<"D", "a", "s", "h", "b", "o", "a", "r", "d">>, <<"M", "I", "X", "E", "D">>, <<"l", "i", "s", "t">> }

\* texts with many elements and attributes, for the complexity score
ScoredTexts ==
    { Times(DivElem, d) \o Times(ImgElem, i) \o Times(StyleAttr, s) \o Times(ClassAttr, c) :
        d \in 0..MaxDivs, i \in 0..MaxImgs, s \in 0..MaxStyleAttrs, c \in 0..MaxClassAttrs }

\* texts with few elements and the layout and ternary markers
ShapedTexts ==
    { g \o f \o q \o Times(DivElem, d) \o Times(ImgElem, i) \o TextTags(t) :
        g \in GridMarks, f \in FlexMarks, q \in TernaryMarks,
        d \in 0..MaxDivs, i \in 0..MaxFewImgs, t \in 0..MaxTextTags }

ExtractInputs ==
    { [name |-> n, text |-> x] : n \in ComponentNames, x \in ShapedTexts }
        \cup { [name |-> <<"H", "e", "r", "o">>, text |-> x] : x \in ScoredTexts }

InitExtract ==
    /\ source \in ExtractInputs
    /\ profile = <<>>
    /\ pc = "extract_call"
    /\ keyIn = <<>>
    /\ keyOut = <<>>
    /\ folder = [exists |-> FALSE, listable |-> FALSE, entries |-> <<>>]
    /\ indexExists = FALSE
    /\ indexDocs = <<>>
    /\ run = 0
    /\ idx_report = "none"
    /\ has_data = FALSE
    /\ jsx_files = <<>>
    /\ file_pos = 0
    /\ all_documents = <<>>
    /\ reads = <<>>
    /\ outcomes = <<>>
    /\ uploads = <<>>
    /\ final_count = 0
    /\ call = <<>>
    /\ baseline = <<>>

ExtractPatterns ==
    /\ pc = "extract_call"
    /\ profile' = <<_extract_jsx_patterns(source.text, source.name)>>
    /\ pc' = "extract_done"
    /\ UNCHANGED <<folder, indexExists, indexDocs, run, idx_report, has_data,
                   jsx_files, file_pos, all_documents, reads, outcomes,
                   uploads, final_count, call, baseline, keyIn, keyOut,
                   source>>

NextExtract == ExtractPatterns

SpecExtract == InitExtract /\ [][NextExtract]_vars

-----------------------------------------------------------------------------
(* Properties *)

\* the attempted files, up to the i-th, whose analysis returned a document
Survivors(i) == { j \in 1..i : outcomes[j] \in {EmbedFailed, Embedded} }

\* the component names of those files, in processing order
SurvivorNames ==
    LET kept == SelectSeq([j \in 1..Len(reads) |-> [file |-> reads[j], how |-> outcomes[j]]],
                          LAMBDA e : e.how \in {EmbedFailed, Embedded})
    IN  [k \in 1..Len(kept) |-> ComponentName(kept[k].file)]

NamesOf(docs) == [k \in 1..Len(docs) |-> docs[k].component_name]

\* the for loop over jsx_files is over
LoopDone == pc \in {"upload", "returned"} /\ jsx_files # <<>>

\* C1: a file whose read or extraction fails yields no document and does not
\* stop the batch: while the loop runs, exactly the files before the current
\* one were attempted, once each and in order; when it is over, every listed
\* .jsx file was attempted exactly once; and the collected documents are
\* those of the files that did not fail, and of no other.
C1_FailureNeverStopsBatch ==
    /\ Len(outcomes) = Len(reads)
    /\ pc = "analyze" => reads = SubSeq(jsx_files, 1, file_pos - 1)
    /\ LoopDone => reads = jsx_files
    /\ pc \in {"analyze", "upload", "returned"} =>
          NamesOf(all_documents) = SurvivorNames

C1_Witness ==
    /\ pc = "upload"
    /\ Len(jsx_files) = 2
    /\ outcomes[1] \in {ReadFailed, ExtractFailed}
    /\ outcomes[2] = Embedded
    /\ Len(all_documents) = 1

\* C2: a search whose embedding request failed returns an empty list and
\* issues no vector query to the index.
C2_FailedEmbeddingAbortsSearch ==
    (call # <<>> /\ ~call[1].embedded) =>
        (call[1].result = <<>> /\ call[1].queries = <<>>)

\* C3: when the index exists and its has-data check reports a document,
\* process_jsx_components returns at once: no file is read, nothing is
\* extracted or embedded, nothing is uploaded.
C3_ExistingDataSkipsProcessing ==
    idx_report = "has_documents" =>
        /\ indexExists /\ indexDocs # <<>>
        /\ has_data
        /\ pc = "returned"
        /\ jsx_files = <<>> /\ reads = <<>> /\ outcomes = <<>>
        /\ all_documents = <<>> /\ uploads = <<>>

C3_Witness ==
    /\ idx_report = "has_documents"
    /\ pc = "returned"
    /\ JsxFilesOf(folder.entries) # <<>>

\* C4: a file that was read and extracted but whose embedding request failed
\* is not skipped: its document is collected with a vector of exactly 1536
\* zeros, and is part of the batch submitted to the index.
C4_FailedEmbeddingGivesZeroVector ==
    \A i \in 1..Len(outcomes) :
        outcomes[i] = EmbedFailed =>
            LET k == Cardinality(Survivors(i))
            IN  /\ k <= Len(all_documents)
                /\ all_documents[k].component_name = ComponentName(reads[i])
                /\ all_documents[k].jsx_vector = [dim |-> 1536, fill |-> 0]
                /\ pc = "returned" =>
                      /\ Len(uploads) = 1
                      /\ k <= Len(uploads[1])
                      /\ uploads[1][k] = all_documents[k]

C4_Witness ==
    /\ pc = "returned"
    /\ Len(outcomes) = 2
    /\ outcomes[1] = Embedded
    /\ outcomes[2] = EmbedFailed
    /\ Len(uploads) = 1

\* C5: in one run upload_documents is called at most once, only after every
\* file was processed, with exactly the documents of the files that did not
\* fail, in processing order, and never with an empty list.
C5_SingleBatchUpload ==
    /\ Len(uploads) <= 1
    /\ uploads # <<>> =>
          /\ pc = "returned"
          /\ reads = jsx_files
          /\ uploads[1] # <<>>
          /\ uploads[1] = all_documents
          /\ NamesOf(uploads[1]) = SurvivorNames
          /\ \A k \in 1..Len(uploads[1]) :
                uploads[1][k].id = _create_safe_jsx_key(uploads[1][k].component_name)
    /\ (pc = "returned" /\ all_documents # <<>>) => Len(uploads) = 1

C5_Witness ==
    /\ pc = "returned"
    /\ Len(uploads) = 1
    /\ Len(uploads[1]) = 2
    /\ NamesOf(uploads[1]) = <<ComponentName(F_bang), ComponentName(F_ab)>>

\* C6: no public operation lets an exception reach its caller.
C6_NoFatalCondition ==
    /\ pc # "raised"
    /\ call # <<>> => ~call[1].raised

\* C7: once one run has ingested every listed file and the index accepted
\* every document, later runs over the same folder leave the index with the
\* same set of keys, and no component is ever stored twice.
C7_IngestionIdempotent ==
    /\ baseline # <<>> => Keys(indexDocs) = baseline[1].keys
    /\ \A i \in 1..Len(indexDocs) : \A j \in 1..Len(indexDocs) :
          indexDocs[i].component_name = indexDocs[j].component_name => i = j

C7_Witness ==
    /\ baseline # <<>>
    /\ baseline[1].run < run
    /\ pc = "returned"
    /\ Len(uploads) = 1
    /\ Len(uploads[1]) = 2

WellFormedKey(k) ==
    /\ \A i \in 1..Len(k) : k[i] \in SafeChars
    /\ \A i \in 1..(Len(k) - 1) : ~(k[i] = "_" /\ k[i + 1] = "_")
    /\ Len(k) <= 100

\* C8 as stated: for a name of any length the key holds only characters of
\* [A-Za-z0-9_-=], has no two consecutive underscores, neither starts nor
\* ends with an underscore, and is at most 100 characters long.
C8_KeyShapeAnyLength ==
    pc = "key_done" =>
        /\ WellFormedKey(keyOut)
        /\ keyOut # <<>> => (keyOut[1] # "_" /\ keyOut[Len(keyOut)] # "_")

\* C8 as amended: the key holds only characters of [A-Za-z0-9_-=], has no
\* two consecutive underscores, is at most 100 characters long and never
\* starts with an underscore; it does not end with one when the name has at
\* most 100 characters, and a key that ends with one is a cut of a longer
\* name, exactly 100 characters long.
C8_KeyShape ==
    pc = "key_done" =>
        /\ WellFormedKey(keyOut)
        /\ keyOut # <<>> => keyOut[1] # "_"
        /\ (keyOut # <<>> /\ keyOut[Len(keyOut)] = "_") =>
              (Len(keyIn) > 100 /\ Len(keyOut) = 100)

C8_Witness ==
    /\ pc = "key_done"
    /\ Len(keyIn) > 100
    /\ Len(keyOut) = 100
    /\ keyOut[100] = "_"
    /\ \E i \in 1..Len(keyIn) : keyIn[i] \notin SafeChars

\* C9: within one batch, files with different component names get different
\* document ids, none of them empty.
C9_KeysCollisionSafe ==
    \A i \in 1..Len(all_documents) :
        /\ all_documents[i].id # <<>>
        /\ \A j \in 1..Len(all_documents) :
              all_documents[i].component_name # all_documents[j].component_name
                  => all_documents[i].id # all_documents[j].id

\* C10: a search for top_k results asks the index for 2 * top_k nearest
\* neighbours (and at most that many hits) and returns the first top_k
\* entries of what the index answered, in the index's order.
C10_OverFetchThenCut ==
    call # <<>> =>
        LET c == call[1]
            n == IF Len(c.response) < c.top_k THEN Len(c.response) ELSE c.top_k
        IN  /\ c.top_k >= 1
            /\ Len(c.queries) = 1
            /\ c.queries[1].k_nearest_neighbors = 2 * c.top_k
            /\ c.queries[1].top = 2 * c.top_k
            /\ Len(c.response) <= 2 * c.top_k
            /\ Len(c.result) <= c.top_k
            /\ c.result = [i \in 1..n |-> ComponentData(c.response[i])]

C10_Witness ==
    /\ call # <<>>
    /\ call[1].top_k = 2
    /\ Len(call[1].response) = 4
    /\ Len(call[1].result) = 2
    /\ call[1].response[1] = indexDocs[3]
    /\ call[1].response[2] = indexDocs[1]

\* C11: get_jsx_recommendations filters by the category its image-count
\* hint selects (0: text_focused; 1 or 2: mixed; more than 2: image_focused;
\* no hint: no category filter), searches with top_k = 3, and so returns at
\* most 3 results.
C11_RecommendationFilter ==
    pc = "recommended" =>
        LET c == call[1]
            hint == c.queries[1].filter.image_count
            cat == c.queries[1].filter.component_category
        IN  /\ c.top_k = 3
            /\ c.queries[1].top = 6
            /\ Len(c.result) <= 3
            /\ c.result = [i \in 1..Len(c.result) |-> ComponentData(c.response[i])]
            /\ hint = <<>> => cat = <<>>
            /\ hint = <<0>> => cat = <<"text_focused">>
            /\ hint \in {<<1>>, <<2>>} => cat = <<"mixed">>
            /\ (hint # <<>> /\ hint[1] > 2) => cat = <<"image_focused">>

C11_Witness ==
    /\ pc = "recommended"
    /\ call[1].queries[1].filter.image_count = <<2>>
    /\ Len(call[1].response) = 4
    /\ Len(call[1].result) = 3

\* case-insensitive: some window of the text, lower-cased, is the word
HasWord(text, word) ==
    \E i \in 1..(Len(text) - Len(word) + 1) :
        ToLower(SubSeq(text, i, i + Len(word) - 1)) = word

\* the number of places of the text where the literal starts
Starts(text, literal) == Cardinality(Occurrences(text, literal))

\* C12: the image arrangement follows the precedence chain: 'grid' anywhere
\* in the text, in any case, gives grid; otherwise 'flex' with more than one
\* image gives flex; otherwise exactly one image gives single; otherwise more
\* than three images gives gallery; otherwise multiple.  So a text without
\* '<img' has images.count 0 and an arrangement that is neither single nor
\* gallery.
C12_ArrangementPrecedence ==
    pc = "extract_done" =>
        LET images == profile[1].images
            n == Starts(source.text, ImgTag)
            grid == HasWord(source.text, GridWord)
            flex == HasWord(source.text, FlexWord) /\ n > 1
        IN  /\ images.count = n
            /\ grid => images.arrangement = "grid"
            /\ ~grid /\ flex => images.arrangement = "flex"
            /\ ~grid /\ ~flex /\ n = 1 => images.arrangement = "single"
            /\ ~grid /\ ~flex /\ n > 3 => images.arrangement = "gallery"
            /\ ~grid /\ ~flex /\ n # 1 /\ n <= 3 => images.arrangement = "multiple"
            /\ n = 0 => /\ images.count = 0
                        /\ images.arrangement \notin {"single", "gallery"}

\* a text with 'Grid', 'flex' and four images is arranged as grid
C12_Witness ==
    /\ pc = "extract_done"
    /\ Contains(source.text, <<"G", "r", "i", "d">>)
    /\ Contains(source.text, FlexWord)
    /\ profile[1].images.count = 4
    /\ profile[1].images.arrangement = "grid"

\* the heading and paragraph tags of the text
TextElementStarts(text) == Starts(text, H1Tag) + Starts(text, H2Tag) + Starts(text, PTag)

\* C13: the category is decided by the first keyword found in the lower-cased
\* name, in the order image, text, mixed, card, list, dashboard, whatever the
\* text holds; only a name without keyword is classified by the text: more
\* images than heading and paragraph tags gives image_focused, more such tags
\* than twice the images gives text_focused, anything else mixed; so a text
\* with no image and no heading or paragraph tag gives mixed.
C13_CategoryByNameFirst ==
    pc = "extract_done" =>
        LET category == profile[1].category
            image == HasWord(source.name, ImageWord)
            text == HasWord(source.name, TextWord)
            mixed == HasWord(source.name, MixedWord)
            card == HasWord(source.name, CardWord)
            list == HasWord(source.name, ListWord)
            dashboard == HasWord(source.name, DashboardWord)
            none == ~(image \/ text \/ mixed \/ card \/ list \/ dashboard)
            imgs == Starts(source.text, ImgTag)
            texts == TextElementStarts(source.text)
        IN  /\ image => category = "image_focused"
            /\ ~image /\ text => category = "text_focused"
            /\ ~image /\ ~text /\ mixed => category = "mixed"
            /\ ~image /\ ~text /\ ~mixed /\ card => category = "card_based"
            /\ ~image /\ ~text /\ ~mixed /\ ~card /\ list => category = "list_based"
            /\ ~image /\ ~text /\ ~mixed /\ ~card /\ ~list /\ dashboard =>
                   category = "dashboard"
            /\ none /\ imgs > texts => category = "image_focused"
            /\ none /\ imgs <= texts /\ texts > 2 * imgs => category = "text_focused"
            /\ none /\ imgs <= texts /\ texts <= 2 * imgs => category = "mixed"
            /\ none /\ imgs = 0 /\ texts = 0 => category = "mixed"

\* the name TextImage on a text of three heading and paragraph tags and no
\* image is image_focused
C13_Witness ==
    /\ pc = "extract_done"
    /\ source.name = <<"T", "e", "x", "t", "I", "m", "a", "g", "e">>
    /\ Starts(source.text, ImgTag) = 0
    /\ TextElementStarts(source.text) = 3
    /\ profile[1].category = "image_focused"

\* both ternary markers occur in the text
TernaryMarked(text) ==
    /\ \E i \in 1..Len(text) : text[i] = "?"
    /\ \E i \in 1..Len(text) : text[i] = ":"

\* C14: the children shape is nested whenever the text has more than three
\* '<div', also when the ternary markers are present; it is conditional
\* exactly when the text has at most three '<div' and both '?' and ':' occur;
\* otherwise it is single.
C14_ChildrenShape ==
    pc = "extract_done" =>
        LET shape == profile[1].structure.children_structure
            divs == Starts(source.text, DivTag)
            ternary == TernaryMarked(source.text)
        IN  /\ divs > 3 => shape = "nested"
            /\ shape = "conditional" <=> (divs <= 3 /\ ternary)
            /\ divs <= 3 /\ ~ternary => shape = "single"

\* four containers and both ternary markers: nested
C14_Witness ==
    /\ pc = "extract_done"
    /\ Starts(source.text, DivTag) = 4
    /\ TernaryMarked(source.text)
    /\ profile[1].structure.children_structure = "nested"

\* the weighted sum 0.5*divs + 1.0*imgs + 0.3*styleAttrs + 0.2*classAttrs of
\* the text, in tenths
WeightedTenths(text) ==
    5 * Starts(text, DivTag) + 10 * Starts(text, ImgTag)
        + 3 * Starts(text, StyleAttr) + 2 * Starts(text, ClassAttr)

\* C15, as claimed: every text with exactly four '<div' and no '<img' scores
\* 2.0 and is simple; the level is simple when the weighted sum is below 5,
\* moderate when it is below 15 and complex otherwise, the sum taken in
\* integers scaled by 10.
C15_LevelInTenths ==
    pc = "extract_done" =>
        LET metadata == profile[1].metadata
            n == WeightedTenths(source.text)
        IN  /\ Starts(source.text, DivTag) = 4 /\ Starts(source.text, ImgTag) = 0 =>
                   /\ metadata.complexity_score = [tenths |-> 20, err |-> 0]
                   /\ metadata.complexity = "simple"
            /\ n < 50 => metadata.complexity = "simple"
            /\ n >= 50 /\ n < 150 => metadata.complexity = "moderate"
            /\ n >= 150 => metadata.complexity = "complex"

\* C15, amended: a text with exactly four '<div' and no '<img', 'style=' or
\* 'className=' scores 2.0 and is simple.  With n the weighted sum in tenths,
\* the level is simple when n < 50, moderate when 50 < n < 150 and complex
\* when n > 150.  When n is 50 (150) the level is moderate (complex) for a
\* text without 'style=' and 'className=', and otherwise that level or the one
\* below it: the score is summed in floating point and can come out just
\* below 5.0 (15.0).
C15_ComplexityLevel ==
    pc = "extract_done" =>
        LET metadata == profile[1].metadata
            n == WeightedTenths(source.text)
            plain == Starts(source.text, StyleAttr) = 0 /\ Starts(source.text, ClassAttr) = 0
        IN  /\ Starts(source.text, DivTag) = 4 /\ Starts(source.text, ImgTag) = 0 /\ plain =>
                   /\ metadata.complexity_score = [tenths |-> 20, err |-> 0]
                   /\ metadata.complexity = "simple"
            /\ n < 50 => metadata.complexity = "simple"
            /\ n > 50 /\ n < 150 => metadata.complexity = "moderate"
            /\ n > 150 => metadata.complexity = "complex"
            /\ n = 50 => metadata.complexity \in {"simple", "moderate"}
            /\ n = 150 => metadata.complexity \in {"moderate", "complex"}
            /\ n = 50 /\ plain => metadata.complexity = "moderate"
            /\ n = 150 /\ plain => metadata.complexity = "complex"

\* one '<div', one '<img', nine 'style=' and four 'className=': the weighted
\* sum is 5.0, the float score is below it and the level is simple
C15_Witness ==
    /\ pc = "extract_done"
    /\ Starts(source.text, DivTag) = 1
    /\ Starts(source.text, ImgTag) = 1
    /\ Starts(source.text, StyleAttr) = 9
    /\ Starts(source.text, ClassAttr) = 4
    /\ profile[1].metadata.complexity_score.tenths = 50
    /\ profile[1].metadata.complexity_score.err < 0
    /\ profile[1].metadata.complexity = "simple"

====
